---- MODULE Spec2Model ----
(***************************************************************************)
(* A model of imser, a minimal in-memory full-text search core:            *)
(* tokenizer, term dictionary, index writer, positional index, TF-IDF      *)
(* scorer and the multi-term intersection iterator.                        *)
(*                                                                         *)
(* Strings of the program are modelled as sequences of one-character       *)
(* strings (a document body) or as TLA+ strings built with \o (a term).    *)
(* A HashMap is a function with a finite domain; the order in which a      *)
(* HashMap is iterated is a nondeterministic choice of a permutation of    *)
(* its keys.  An f32 is an exact rational [num, den] (den > 0); log2 is    *)
(* computed in fixed point, in units of 1/8.                               *)
(***************************************************************************)
EXTENDS Integers, Sequences, FiniteSets, TLC

VARIABLES
    seq,             \* IndexWriter.seq
    term_dict,       \* IndexWriter.term_dict
    term_positions,  \* IndexWriter.term_positions
    stored,          \* IndexWriter.stored
    pc,              \* "writing" until build consumes the writer, then "built"
    index,           \* the PositionalIndex returned by build
    ret,             \* the last query call and what it returned
    mt,              \* the multi-term intersection iterator
    written          \* history: the documents passed to write, in call order

vars == <<seq, term_dict, term_positions, stored, pc, index, ret, mt, written>>

(***************************************************************************)
(* Bounds of the model.                                                    *)
(***************************************************************************)
MaxDocs == 3

MaxBodyLen == 4

MaxQueryLen == 2

\* The documents of a ranking run: four are the fewest for which a term with
\* two postings has a positive idf.
MaxRankDocs == 4

\* The add_term calls made on one dictionary.
MaxAddCalls == 4

\* The length of the texts given to the tokenizers, in bytes.
MaxTextLen == 3

\* The documents written in a run over those texts.
MaxTextDocs == 1

\* The characters of those texts: letters, whitespace, ASCII punctuation.
TextChars == {"a", "b", " ", "."}

\* The texts given to the tokenizers.
Texts == UNION {[1..n -> TextChars] : n \in 0..MaxTextLen}

\* The largest doc_id of the DocAndScore values that are compared.
MaxCmpDocId == 2

\* The terms add_term is called with.
DictTerms == {"a", "bc", "is"}

\* The words the documents are made of, as character sequences.
Words == {<<"a">>, <<"b", "c">>}

\* The terms a query may ask for; each is absent from the index whenever no
\* written document holds it.
QueryTerms == {"a", "bc"}

\* Option<T>: None, or Some(v).
None == [some |-> FALSE]

Some(v) == [some |-> TRUE, val |-> v]

(***************************************************************************)
(* Generic helpers.                                                        *)
(***************************************************************************)
\* HashMap::insert / entry().or_insert for a map modelled as a function.
MapPut(m, k, v) == [x \in (DOMAIN m) \cup {k} |-> IF x = k THEN v ELSE m[x]]

EmptyMap == [x \in {} |-> 0]

\* Every order in which the keys S of a HashMap can be iterated.
Orders(S) == {s \in [1..Cardinality(S) -> S] : \A a \in S : \E i \in 1..Cardinality(S) : s[i] = a}

SeqsUpTo(S, n) == UNION {[1..k -> S] : k \in 0..n}

RECURSIVE JoinWords(_)
\* The words of ws separated by single spaces, as a character sequence.
JoinWords(ws) ==
    IF ws = <<>> THEN <<>>
    ELSE IF Len(ws) = 1 THEN Head(ws)
    ELSE Head(ws) \o <<" ">> \o JoinWords(Tail(ws))

\* The document bodies write is called with: the texts of at most MaxBodyLen
\* bytes made of the words.
Bodies == {b \in {JoinWords(ws) : ws \in SeqsUpTo(Words, MaxBodyLen)} : Len(b) <= MaxBodyLen}

\* The bodies of the documents the leapfrog loop is run over: one for each set
\* of words.
LeapBodies == {JoinWords(ws) : ws \in {<<>>, <<<<"a">>>>, <<<<"b", "c">>>>, <<<<"a">>, <<"b", "c">>>>}}

(***************************************************************************)
(* Tokenizer (lib.rs tokenize).                                            *)
(***************************************************************************)
is_whitespace(c) == c \in {" "}

is_ascii_punctuation(c) == c \in {".", "?", "'", ","}

\* char::len_utf8: every character of the model is ASCII, one byte.
len_utf8(c) == Len(c)

new_term(term, offset, position) ==
    [kind |-> "Term", text |-> term, offset |-> offset, length |-> Len(term), position |-> position]

new_punct(punct, offset, position) ==
    [kind |-> "Punct", text |-> punct, offset |-> offset, length |-> Len(punct), position |-> position]

\* One iteration of the loop over sentence.chars(); st holds the loop's locals.
tokenize_char(st, c) ==
    IF is_whitespace(c) THEN
        IF st.term # "" THEN
            [tokens |-> Append(st.tokens, new_term(st.term, st.base_offset - Len(st.term), st.word_count)),
             term |-> "",
             base_offset |-> st.base_offset + len_utf8(c),
             word_count |-> st.word_count + 1]
        ELSE [st EXCEPT !.base_offset = @ + len_utf8(c)]
    ELSE IF is_ascii_punctuation(c) THEN
        [tokens |-> st.tokens \o
                    <<new_term(st.term, st.base_offset - Len(st.term), st.word_count),
                      new_punct(c, st.base_offset, st.word_count + 1)>>,
         term |-> "",
         base_offset |-> st.base_offset + len_utf8(c),
         word_count |-> st.word_count + 2]
    ELSE [st EXCEPT !.base_offset = @ + len_utf8(c), !.term = @ \o c]

RECURSIVE tokenize_loop(_, _)
tokenize_loop(st, rest) ==
    IF rest = <<>> THEN st ELSE tokenize_loop(tokenize_char(st, Head(rest)), Tail(rest))

tokenize(sentence) ==
    LET st == tokenize_loop([tokens |-> <<>>, term |-> "", base_offset |-> 0, word_count |-> 0], sentence)
    IN  IF st.term # ""
        THEN Append(st.tokens, new_term(st.term, st.base_offset - Len(st.term), st.word_count))
        ELSE st.tokens

(***************************************************************************)
(* Whitespace tokenizer of token.rs (whitespace_tokenize): the term is a   *)
(* slice of the sentence, kept as its byte length.                         *)
(***************************************************************************)
RECURSIVE str_slice(_, _, _)
\* &sentence[from..to] for byte offsets from <= to (every character is one byte).
str_slice(sentence, from, to) ==
    IF from >= to THEN "" ELSE sentence[from + 1] \o str_slice(sentence, from + 1, to)

\* One iteration of the loop over sentence.chars(); st holds the loop's locals.
whitespace_tokenize_char(sentence, st, c) ==
    IF is_whitespace(c) THEN
        IF st.length > 0 THEN
            [tokens |-> Append(st.tokens,
                               new_term(str_slice(sentence, st.base_offset - st.length, st.base_offset),
                                        st.base_offset - st.length, st.word_count)),
             length |-> 0,
             base_offset |-> st.base_offset + len_utf8(c),
             word_count |-> st.word_count + 1]
        ELSE [st EXCEPT !.base_offset = @ + len_utf8(c)]
    ELSE IF is_ascii_punctuation(c) THEN
        [tokens |-> st.tokens \o
                    <<new_term(str_slice(sentence, st.base_offset - st.length, st.base_offset),
                               st.base_offset - st.length, st.word_count),
                      new_punct(str_slice(sentence, st.base_offset, st.base_offset + len_utf8(c)),
                                st.base_offset, st.word_count + 1)>>,
         length |-> 0,
         base_offset |-> st.base_offset + len_utf8(c),
         word_count |-> st.word_count + 2]
    ELSE [st EXCEPT !.base_offset = @ + len_utf8(c), !.length = @ + len_utf8(c)]

RECURSIVE whitespace_tokenize_loop(_, _, _)
whitespace_tokenize_loop(sentence, st, rest) ==
    IF rest = <<>> THEN st
    ELSE whitespace_tokenize_loop(sentence, whitespace_tokenize_char(sentence, st, Head(rest)), Tail(rest))

whitespace_tokenize(sentence) ==
    LET st == whitespace_tokenize_loop(
                  sentence, [tokens |-> <<>>, length |-> 0, base_offset |-> 0, word_count |-> 0], sentence)
    IN  IF st.length > 0
        THEN Append(st.tokens,
                    new_term(str_slice(sentence, st.base_offset - st.length, st.base_offset),
                             st.base_offset - st.length, st.word_count))
        ELSE st.tokens

(***************************************************************************)
(* Term dictionary (lib.rs TermDict).                                      *)
(***************************************************************************)
TermDict_new == [term2idx |-> EmptyMap, idx2term |-> EmptyMap, len |-> 0]

\* add_term without the increment of len: every new term gets the same id.
add_term_same_len(td, term) ==
    LET isNew == term \notin DOMAIN td.term2idx
        idx   == IF isNew THEN td.len ELSE td.term2idx[term]
    IN  [dict |-> [term2idx |-> IF isNew THEN MapPut(td.term2idx, term, td.len) ELSE td.term2idx,
                   idx2term |-> IF idx \in DOMAIN td.idx2term THEN td.idx2term
                                ELSE MapPut(td.idx2term, idx, term),
                   len      |-> td.len],
         index |-> idx]

\* add_term with insert in place of entry: a term seen before gets a new id.
add_term_reinsert(td, term) ==
    [dict |-> [term2idx |-> MapPut(td.term2idx, term, td.len),
               idx2term |-> MapPut(td.idx2term, td.len, term),
               len      |-> td.len + 1],
     index |-> td.len]

\* add_term: the dictionary after the call and the id returned.
add_term(td, term) ==
    LET isNew == term \notin DOMAIN td.term2idx
        idx   == IF isNew THEN td.len ELSE td.term2idx[term]
    IN  [dict |-> [term2idx |-> IF isNew THEN MapPut(td.term2idx, term, td.len) ELSE td.term2idx,
                   idx2term |-> IF idx \in DOMAIN td.idx2term THEN td.idx2term
                                ELSE MapPut(td.idx2term, idx, term),
                   len      |-> IF isNew THEN td.len + 1 ELSE td.len],
         index |-> idx]

\* TermDict::term
TermDict_term(td, idx) == IF idx \in DOMAIN td.idx2term THEN Some(td.idx2term[idx]) ELSE None

\* TermDict::index
TermDict_index(td, term) == IF term \in DOMAIN td.term2idx THEN Some(td.term2idx[term]) ELSE None

(***************************************************************************)
(* Index writer (lib.rs IndexWriter).                                      *)
(***************************************************************************)
Document(body) == [body |-> body]

RECURSIVE write_tokens(_, _, _)
\* The loop of write over the tokens: the dictionary and the per-document
\* map data (dictionary id -> positions) after it.
write_tokens(td, data, tokens) ==
    IF tokens = <<>> THEN [dict |-> td, data |-> data]
    ELSE LET token == Head(tokens)
         IN  IF token.kind = "Term"
             THEN LET r   == add_term(td, token.text)
                      old == IF r.index \in DOMAIN data THEN data[r.index] ELSE <<>>
                  IN  write_tokens(r.dict, MapPut(data, r.index, Append(old, token.position)), Tail(tokens))
             ELSE write_tokens(td, data, Tail(tokens))

(***************************************************************************)
(* f32 arithmetic: exact rationals [num, den]; den = 0 with num < 0 is     *)
(* -infinity (log2 of 0).                                                  *)
(***************************************************************************)
f32(n) == [num |-> n, den |-> 1]

f32_div(a, b) == [num |-> a.num * b.den, den |-> a.den * b.num]

f32_mul(a, b) == [num |-> a.num * b.num, den |-> a.den * b.den]

\* The difference over the common denominator when there is one, to keep the
\* numbers small.
f32_sub(a, b) ==
    IF a.den = b.den THEN [num |-> a.num - b.num, den |-> a.den]
    ELSE [num |-> a.num * b.den - b.num * a.den, den |-> a.den * b.den]

f32_lt(a, b) == a.num * b.den < b.num * a.den

f32_max(a, b) == IF f32_lt(a, b) THEN b ELSE a

f32_abs(a) == [num |-> IF a.num < 0 THEN -a.num ELSE a.num, den |-> a.den]

RECURSIVE floor_log2(_, _)
\* floor(log2(n / d)) for n > 0 and d > 0.
floor_log2(n, d) ==
    IF n >= 2 * d THEN floor_log2(n, 2 * d) + 1
    ELSE IF n < d THEN floor_log2(2 * n, d) - 1
    ELSE 0

\* f32::log2 in fixed point: floor(8 * log2(x)) / 8, and -infinity at 0.
\* The rounding is downwards, so the result is 0 exactly when 1 <= x < 2^(1/8)
\* and negative exactly when x < 1.
f32_log2(x) ==
    IF x.num = 0 THEN [num |-> -1, den |-> 0]
    ELSE [num |-> floor_log2(x.num ^ 8, x.den ^ 8), den |-> 8]

\* f32::EPSILON is 2^-23: 1 / EPSILON_inv.
EPSILON_inv == 8388608

\* x <= f32::EPSILON for x >= 0, without the product x.num * EPSILON_inv.
f32_le_EPSILON(x) == x.num <= x.den \div EPSILON_inv

(***************************************************************************)
(* Positional index (lib.rs TermFreq, PostingList, PositionalIndex).       *)
(***************************************************************************)
TermFreq_new == [term_count |-> 0, terms |-> EmptyMap]

\* put_term with term_count assigned instead of added.
put_term_assign(tfq, term, term_count) ==
    [term_count |-> term_count,
     terms      |-> MapPut(tfq.terms, term, term_count)]

put_term(tfq, term, term_count) ==
    [term_count |-> tfq.term_count + term_count,
     terms      |-> MapPut(tfq.terms, term, term_count)]

TermFreq_tf(tfq, term) ==
    LET term_freq == IF term \in DOMAIN tfq.terms THEN tfq.terms[term] ELSE 0
    IN  f32_div(f32(term_freq), f32(tfq.term_count))

PositionalIndex_new(doc_count) ==
    [doc_count |-> doc_count, postings |-> EmptyMap, stored |-> EmptyMap, term_freq |-> EmptyMap]

\* push_posting with the posting put at the front of the list.
push_posting_front(ix, term, posting) ==
    LET posting_list == IF term \in DOMAIN ix.postings THEN ix.postings[term] ELSE <<>>
    IN  [ix EXCEPT !.postings = MapPut(@, term, <<posting>> \o posting_list)]

push_posting(ix, term, posting) ==
    LET posting_list == IF term \in DOMAIN ix.postings THEN ix.postings[term] ELSE <<>>
    IN  [ix EXCEPT !.postings = MapPut(@, term, Append(posting_list, posting))]

\* push_term_freq with a fresh TermFreq inserted on every call.
push_term_freq_replace(ix, id, term, term_count) ==
    [ix EXCEPT !.term_freq = MapPut(@, id, put_term(TermFreq_new, term, term_count))]

push_term_freq(ix, id, term, term_count) ==
    LET tfq == IF id \in DOMAIN ix.term_freq THEN ix.term_freq[id] ELSE TermFreq_new
    IN  [ix EXCEPT !.term_freq = MapPut(@, id, put_term(tfq, term, term_count))]

\* store_document with the key off by one.
store_document_off(ix, id, d) == [ix EXCEPT !.stored = MapPut(@, id + 1, d)]

store_document(ix, id, d) == [ix EXCEPT !.stored = MapPut(@, id, d)]

doc(ix, id) == IF id \in DOMAIN ix.stored THEN Some(ix.stored[id]) ELSE None

\* idf without the floor at 0.
idf_unfloored(ix, term) ==
    LET term_doc_count == (IF term \in DOMAIN ix.postings THEN Len(ix.postings[term]) ELSE 0) + 1
    IN  f32_log2(f32_div(f32(ix.doc_count), f32(term_doc_count)))

idf(ix, term) ==
    LET term_doc_count == (IF term \in DOMAIN ix.postings THEN Len(ix.postings[term]) ELSE 0) + 1
    IN  f32_max(f32_log2(f32_div(f32(ix.doc_count), f32(term_doc_count))), f32(0))

tf(ix, doc_id, term) ==
    IF doc_id \in DOMAIN ix.term_freq THEN TermFreq_tf(ix.term_freq[doc_id], term) ELSE f32(0)

RECURSIVE build_postings_rev(_, _, _)
\* The first loop of build taking the triples from the end of the vector.
build_postings_rev(ix, td, tps) ==
    IF tps = <<>> THEN Some(ix)
    ELSE LET last      == tps[Len(tps)]
             term      == TermDict_term(td, last[2])
         IN  IF ~term.some THEN None
             ELSE build_postings_rev(
                      [ix EXCEPT !.postings =
                                     MapPut(@, term.val,
                                            Append(IF term.val \in DOMAIN @ THEN @[term.val] ELSE <<>>,
                                                   [doc_id |-> last[1], positions |-> last[3]])),
                                 !.term_freq =
                                     MapPut(@, last[1],
                                            put_term(IF last[1] \in DOMAIN @ THEN @[last[1]] ELSE TermFreq_new,
                                                     term.val, Len(last[3])))],
                      td, SubSeq(tps, 1, Len(tps) - 1))

RECURSIVE build_postings(_, _, _)
\* The first loop of build; None when term(idx).unwrap() panics.
build_postings(ix, td, tps) ==
    IF tps = <<>> THEN Some(ix)
    ELSE LET doc_id    == Head(tps)[1]
             idx       == Head(tps)[2]
             positions == Head(tps)[3]
             term      == TermDict_term(td, idx)
         IN  IF ~term.some THEN None
             ELSE build_postings(
                      push_posting(push_term_freq(ix, doc_id, term.val, Len(positions)),
                                   term.val, [doc_id |-> doc_id, positions |-> positions]),
                      td, Tail(tps))

\* The second loop of build stopping one document early.
build_stored_short(ix, st) ==
    [ix EXCEPT !.stored = [id \in {st[i][1] : i \in 1..(Len(st) - 1)} |->
                              (CHOOSE e \in {st[i] : i \in 1..(Len(st) - 1)} : e[1] = id)[2]]]

RECURSIVE build_stored(_, _)
\* The second loop of build.
build_stored(ix, st) ==
    IF st = <<>> THEN ix
    ELSE build_stored(store_document(ix, Head(st)[1], Head(st)[2]), Tail(st))

build(w_seq, w_term_dict, w_term_positions, w_stored) ==
    LET ix == build_postings(PositionalIndex_new(w_seq), w_term_dict, w_term_positions)
    IN  IF ~ix.some THEN None ELSE Some(build_stored(ix.val, w_stored))

(***************************************************************************)
(* TF-IDF scorer (lib.rs DocAndScore, search_term, search_main).           *)
(***************************************************************************)
new_with_score(doc_id, score) == [doc_id |-> doc_id, score |-> score]

reverse(o) == IF o = "Less" THEN "Greater" ELSE IF o = "Greater" THEN "Less" ELSE "Equal"

then_with(o, other) == IF o = "Equal" THEN other ELSE o

usize_cmp(a, b) == IF a < b THEN "Less" ELSE IF a > b THEN "Greater" ELSE "Equal"

score_cmp(a, b) ==
    LET sub == f32_sub(a.score, b.score)
    IN  IF f32_le_EPSILON(f32_abs(sub)) THEN "Equal"
        ELSE IF sub.num > 0 THEN "Greater"
        ELSE "Less"

\* impl Ord for DocAndScore in lib.rs, the one search_term sorts with.
cmp(a, b) == then_with(score_cmp(a, b), reverse(usize_cmp(a.doc_id, b.doc_id)))

\* f32::partial_cmp on finite scores: the exact comparison.
f32_partial_cmp(a, b) ==
    Some(IF f32_lt(a, b) THEN "Less" ELSE IF f32_lt(b, a) THEN "Greater" ELSE "Equal")

\* impl PartialOrd for DocAndScore in lib.rs.
partial_cmp(a, b) ==
    LET f == f32_partial_cmp(a.score, b.score)
    IN  IF f.some THEN Some(then_with(f.val, usize_cmp(a.doc_id, b.doc_id))) ELSE None

\* DocAndScore::score_cmp in doc.rs.
doc_rs_score_cmp(a, b) ==
    LET sub == f32_sub(a.score, b.score)
    IN  IF f32_le_EPSILON(f32_abs(sub)) THEN "Equal"
        ELSE IF sub.num > 0 THEN "Greater"
        ELSE "Less"

\* impl Ord for DocAndScore in doc.rs.
doc_rs_cmp(a, b) == then_with(reverse(doc_rs_score_cmp(a, b)), usize_cmp(a.doc_id, b.doc_id))

\* impl PartialOrd for DocAndScore in doc.rs.
doc_rs_partial_cmp(a, b) == Some(doc_rs_cmp(a, b))

RECURSIVE sort_insert(_, _)
\* x put into the sorted s after every element that is not greater than x.
sort_insert(s, x) ==
    IF s = <<>> THEN <<x>>
    ELSE IF cmp(x, Head(s)) = "Less" THEN <<x>> \o s
    ELSE <<Head(s)>> \o sort_insert(Tail(s), x)

RECURSIVE sort(_)
\* slice::sort: the stable ascending sort by Ord::cmp.
sort(s) == IF s = <<>> THEN <<>> ELSE sort_insert(sort(SubSeq(s, 1, Len(s) - 1)), s[Len(s)])

search_term(ix, term) ==
    IF term \notin DOMAIN ix.postings THEN <<>>
    ELSE LET posting_list == ix.postings[term]
             the_idf      == idf(ix, term)
             docs_scores  == [i \in 1..Len(posting_list) |->
                                 new_with_score(posting_list[i].doc_id,
                                                f32_mul(tf(ix, posting_list[i].doc_id, term), the_idf))]
             sorted       == sort(docs_scores)
         IN  [i \in 1..Len(sorted) |-> sorted[i].doc_id]

\* The map/collect of search_main over the ids of search_term; None when
\* doc(id).unwrap() panics.
search_main_docs(ix, ids) ==
    IF \E i \in 1..Len(ids) : ~doc(ix, ids[i]).some THEN None
    ELSE Some([i \in 1..Len(ids) |-> doc(ix, ids[i]).val])

(***************************************************************************)
(* Multi-term intersection iterator (spec section 4.5).                    *)
(* The iterator's state: the query terms, one cursor per term (the 1-based *)
(* position of the cursor's head in the term's posting list, one past the  *)
(* end when the cursor is exhausted) and the shared candidate (None once   *)
(* the iterator is exhausted).                                             *)
(***************************************************************************)
\* Construction that passes over the absent terms instead of stopping.
mt_open_unchecked(ix, terms, seed, cursors, candidate) ==
    LET present == SelectSeq(terms, LAMBDA t : t \in DOMAIN ix.postings)
    IN  IF present = <<>> THEN [terms |-> terms, cursors |-> <<>>, candidate |-> None]
        ELSE [terms     |-> present,
              cursors   |-> [i \in 1..Len(present) |-> 1],
              candidate |-> Some(ix.postings[present[1]][1].doc_id)]

RECURSIVE mt_open(_, _, _, _, _)
\* Construction: the terms are opened in query order; an absent term leaves
\* the iterator exhausted; the list opened at position seed gives the
\* first candidate.
mt_open(ix, terms, seed, cursors, candidate) ==
    IF Len(cursors) = Len(terms) THEN [terms |-> terms, cursors |-> cursors, candidate |-> candidate]
    ELSE LET i    == Len(cursors) + 1
             term == terms[i]
         IN  IF term \notin DOMAIN ix.postings
             THEN [terms |-> terms, cursors |-> <<>>, candidate |-> None]
             ELSE mt_open(ix, terms, seed, Append(cursors, 1),
                          IF i = seed THEN Some(ix.postings[term][1].doc_id) ELSE candidate)

mt_new(ix, terms, seed) == mt_open(ix, terms, seed, <<>>, None)

RECURSIVE mt_skip(_, _, _)
\* Step 1 for one cursor: past every posting with doc_id < candidate.
mt_skip(pl, c, candidate) ==
    IF c <= Len(pl) /\ pl[c].doc_id < candidate THEN mt_skip(pl, c + 1, candidate) ELSE c

\* Step 1: every cursor skipped to the candidate.
mt_skip_all(ix, it) ==
    [i \in 1..Len(it.cursors) |-> mt_skip(ix.postings[it.terms[i]], it.cursors[i], it.candidate.val)]

\* Step 2: the first cursor, in query order, that is exhausted or whose head
\* is not the candidate; 0 when every head is the candidate.
mt_scan(ix, it, cursors) ==
    LET bad == {i \in 1..Len(cursors) :
                   \/ cursors[i] > Len(ix.postings[it.terms[i]])
                   \/ ix.postings[it.terms[i]][cursors[i]].doc_id # it.candidate.val}
    IN  IF bad = {} THEN 0 ELSE CHOOSE i \in bad : \A j \in bad : i <= j

\* A round whose emission leaves the candidate where it is.
mt_round_stay(ix, it) ==
    LET cursors == mt_skip_all(ix, it)
        i       == mt_scan(ix, it, cursors)
    IN  IF i = 0
        THEN [it   |-> [it EXCEPT !.cursors = cursors],
              out  |-> it.candidate,
              more |-> FALSE]
        ELSE IF cursors[i] > Len(ix.postings[it.terms[i]])
        THEN [it   |-> [it EXCEPT !.cursors = cursors, !.candidate = None],
              out  |-> None,
              more |-> FALSE]
        ELSE [it   |-> [it EXCEPT !.cursors = cursors,
                                  !.candidate = Some(ix.postings[it.terms[i]][cursors[i]].doc_id)],
              out  |-> None,
              more |-> TRUE]

\* One round of the leapfrog loop (steps 1 to 3): the iterator after it, what
\* it emits, and whether the loop goes on.
mt_round(ix, it) ==
    LET cursors == mt_skip_all(ix, it)
        i       == mt_scan(ix, it, cursors)
    IN  IF i = 0
        THEN [it   |-> [it EXCEPT !.cursors = cursors, !.candidate = Some(it.candidate.val + 1)],
              out  |-> it.candidate,
              more |-> FALSE]
        ELSE IF cursors[i] > Len(ix.postings[it.terms[i]])
        THEN [it   |-> [it EXCEPT !.cursors = cursors, !.candidate = None],
              out  |-> None,
              more |-> FALSE]
        ELSE [it   |-> [it EXCEPT !.cursors = cursors,
                                  !.candidate = Some(ix.postings[it.terms[i]][cursors[i]].doc_id)],
              out  |-> None,
              more |-> TRUE]

RECURSIVE mt_next(_, _)
\* next(): rounds until a match is emitted or the iterator is exhausted.
mt_next(ix, it) ==
    IF ~it.candidate.some THEN [it |-> it, out |-> None]
    ELSE LET r == mt_round(ix, it)
         IN  IF r.more THEN mt_next(ix, r.it) ELSE [it |-> r.it, out |-> r.out]

Init ==
    /\ seq = 0
    /\ term_dict = TermDict_new
    /\ term_positions = <<>>
    /\ stored = <<>>
    /\ pc = "writing"
    /\ index = None
    /\ ret = [op |-> "none"]
    /\ mt = None
    /\ written = <<>>

\* IndexWriter::write(doc), with seq_incr inlined; limit bounds the writes.
WriteUpTo(d, limit) ==
    /\ pc = "writing"
    /\ seq < limit
    /\ LET id == seq
           r  == write_tokens(term_dict, EmptyMap, tokenize(d.body))
       IN  /\ seq' = seq + 1
           /\ term_dict' = r.dict
           /\ \E ord \in Orders(DOMAIN r.data) :
                 term_positions' = term_positions \o
                     [i \in 1..Len(ord) |-> <<id, ord[i], r.data[ord[i]]>>]
           /\ stored' = Append(stored, <<id, d>>)
    /\ written' = Append(written, d)
    /\ UNCHANGED <<pc, index, ret, mt>>

Write(d) == WriteUpTo(d, MaxDocs)

\* write in a ranking run.
WriteRank(d) == WriteUpTo(d, MaxRankDocs)

\* IndexWriter::build(self): the writer is moved into build and is gone after
\* it; its fields are cleared.
Build ==
    /\ pc = "writing"
    /\ LET ix == build(seq, term_dict, term_positions, stored)
       IN  /\ index' = ix
           /\ pc' = IF ix.some THEN "built" ELSE "panicked"
    /\ seq' = 0
    /\ term_dict' = TermDict_new
    /\ term_positions' = <<>>
    /\ stored' = <<>>
    /\ UNCHANGED <<ret, mt, written>>

\* search_term(&index, term)
SearchTerm(term) ==
    /\ pc = "built"
    /\ ret' = [op |-> "search_term", term |-> term, val |-> search_term(index.val, term)]
    /\ UNCHANGED <<seq, term_dict, term_positions, stored, pc, index, mt, written>>

\* index.idf(term)
Idf(term) ==
    /\ pc = "built"
    /\ ret' = [op |-> "idf", term |-> term, val |-> idf(index.val, term)]
    /\ UNCHANGED <<seq, term_dict, term_positions, stored, pc, index, mt, written>>

\* index.tf(doc_id, term)
Tf(doc_id, term) ==
    /\ pc = "built"
    /\ ret' = [op |-> "tf", doc_id |-> doc_id, term |-> term, val |-> tf(index.val, doc_id, term)]
    /\ UNCHANGED <<seq, term_dict, term_positions, stored, pc, index, mt, written>>

\* search_main(docs, term) from the index it has built (its write loop and its
\* build are the Write and Build steps before).
SearchMain(term) ==
    /\ pc = "built"
    /\ LET docs == search_main_docs(index.val, search_term(index.val, term))
       IN  /\ ret' = [op |-> "search_main", term |-> term, val |-> docs]
           /\ pc' = IF docs.some THEN pc ELSE "panicked"
    /\ UNCHANGED <<seq, term_dict, term_positions, stored, index, mt, written>>

\* write of a text with whitespace and punctuation.
WriteText(d) == WriteUpTo(d, MaxTextDocs)

\* tokenize(sentence) of lib.rs
Tokenize(sentence) ==
    /\ ret' = [op |-> "tokenize", sentence |-> sentence, val |-> tokenize(sentence)]
    /\ UNCHANGED <<seq, term_dict, term_positions, stored, pc, index, mt, written>>

\* whitespace_tokenize(sentence) of token.rs
WhitespaceTokenize(sentence) ==
    /\ ret' = [op |-> "whitespace_tokenize", sentence |-> sentence, val |-> whitespace_tokenize(sentence)]
    /\ UNCHANGED <<seq, term_dict, term_positions, stored, pc, index, mt, written>>

\* The scores of the values that are compared: 0, f32::EPSILON, 1/2 and 1.
CmpScores == {f32(0), f32_div(f32(1), f32(EPSILON_inv)), f32_div(f32(1), f32(2)), f32(1)}

\* The DocAndScore values that are compared.
DocAndScores == {new_with_score(doc_id, score) : doc_id \in 0..MaxCmpDocId, score \in CmpScores}

\* a.cmp(&b), b.cmp(&a) and a.partial_cmp(&b) with the impls of lib.rs
Cmp(a, b) ==
    /\ ret' = [op |-> "cmp", a |-> a, b |-> b,
               val |-> cmp(a, b), rev |-> cmp(b, a), partial |-> partial_cmp(a, b)]
    /\ UNCHANGED <<seq, term_dict, term_positions, stored, pc, index, mt, written>>

\* a.cmp(&b), b.cmp(&a) and a.partial_cmp(&b) with the impls of doc.rs
DocRsCmp(a, b) ==
    /\ ret' = [op |-> "doc_rs_cmp", a |-> a, b |-> b,
               val |-> doc_rs_cmp(a, b), rev |-> doc_rs_cmp(b, a), partial |-> doc_rs_partial_cmp(a, b)]
    /\ UNCHANGED <<seq, term_dict, term_positions, stored, pc, index, mt, written>>

\* term_dict.add_term(term); ret.log is the history of the terms passed so far.
AddTerm(term) ==
    /\ pc = "writing"
    /\ LET log == IF ret.op = "add_term" THEN ret.log ELSE <<>>
           r   == add_term(term_dict, term)
       IN  /\ Len(log) < MaxAddCalls
           /\ term_dict' = r.dict
           /\ ret' = [op |-> "add_term", term |-> term, val |-> r.index, log |-> Append(log, term)]
    /\ UNCHANGED <<seq, term_positions, stored, pc, index, mt, written>>

\* The multi-term query is built over the index for the terms of the query.
MultiTermNew(terms) ==
    /\ pc = "built"
    /\ \E seed \in 1..Len(terms) :
          mt' = Some(mt_new(index.val, terms, seed))
    /\ ret' = [op |-> "multi_term", terms |-> terms, val |-> <<>>, done |-> FALSE]
    /\ UNCHANGED <<seq, term_dict, term_positions, stored, pc, index, written>>

\* One request for the next match; the caller collects the matches in ret.val.
MultiTermNext ==
    /\ pc = "built"
    /\ mt.some
    /\ LET r == mt_next(index.val, mt.val)
       IN  /\ mt' = Some(r.it)
           /\ ret' = [ret EXCEPT !.val  = IF r.out.some THEN Append(@, r.out.val) ELSE @,
                                 !.done = ~r.out.some]
    /\ UNCHANGED <<seq, term_dict, term_positions, stored, pc, index, written>>

\* A request for the next match begins: the leapfrog loop is entered.
MultiTermRequest ==
    /\ pc = "built"
    /\ mt.some
    /\ pc' = "next"
    /\ UNCHANGED <<seq, term_dict, term_positions, stored, index, ret, mt, written>>

\* One round of the leapfrog loop of the request in progress; the request
\* returns when the round emits a match or finds the iterator exhausted.
LeapfrogRound ==
    /\ pc = "next"
    /\ IF ~mt.val.candidate.some
       THEN /\ mt' = mt
            /\ pc' = "built"
            /\ ret' = [ret EXCEPT !.done = TRUE]
       ELSE LET r == mt_round(index.val, mt.val)
            IN  /\ mt' = Some(r.it)
                /\ pc' = IF r.more THEN "next" ELSE "built"
                /\ ret' = IF r.more THEN ret
                          ELSE [ret EXCEPT !.val  = IF r.out.some THEN Append(@, r.out.val) ELSE @,
                                           !.done = ~r.out.some]
    /\ UNCHANGED <<seq, term_dict, term_positions, stored, index, written>>

\* The queries of the multi-term iterator.
Queries == SeqsUpTo(QueryTerms, MaxQueryLen) \ {<<>>}

Next ==
    \/ \E body \in Bodies : Write(Document(body))
    \/ Build
    \/ \E term \in QueryTerms : SearchTerm(term)
    \/ \E term \in QueryTerms : SearchMain(term)
    \/ \E term \in QueryTerms : Idf(term)
    \/ \E doc_id \in 0..MaxDocs, term \in QueryTerms : Tf(doc_id, term)

Spec == Init /\ [][Next]_vars

\* The index pipeline with the multi-term iterator as the query.
NextIter ==
    \/ \E body \in Bodies : Write(Document(body))
    \/ Build
    \/ \E terms \in Queries : MultiTermNew(terms)
    \/ MultiTermNext

SpecIter == Init /\ [][NextIter]_vars

\* The index pipeline with the multi-term iterator run one leapfrog round at a
\* time.  A request, once begun, runs its loop: the program is single-threaded
\* and nothing else is enabled while a request is in progress.
NextLeap ==
    \/ \E body \in LeapBodies : Write(Document(body))
    \/ Build
    \/ \E terms \in Queries : MultiTermNew(terms)
    \/ MultiTermRequest
    \/ LeapfrogRound

SpecLeap == Init /\ [][NextLeap]_vars /\ WF_vars(LeapfrogRound)

\* The index pipeline with search_term as the query, over larger corpora.
NextRank ==
    \/ \E body \in Bodies : WriteRank(Document(body))
    \/ Build
    \/ \E term \in QueryTerms : SearchTerm(term)

SpecRank == Init /\ [][NextRank]_vars

\* The tokenizers, and the index pipeline over texts with punctuation.
NextText ==
    \/ \E sentence \in Texts : Tokenize(sentence)
    \/ \E sentence \in Texts : WhitespaceTokenize(sentence)
    \/ \E body \in Texts : WriteText(Document(body))
    \/ Build

SpecText == Init /\ [][NextText]_vars

\* The orderings of DocAndScore on their own, as in doc.rs
\* tests::doc_and_score_compare_test.
NextOrd ==
    \/ \E a, b \in DocAndScores : Cmp(a, b)
    \/ \E a, b \in DocAndScores : DocRsCmp(a, b)

SpecOrd == Init /\ [][NextOrd]_vars

\* A term dictionary on its own, as in tests::term_dict_test.
NextDict == \E term \in DictTerms : AddTerm(term)

SpecDict == Init /\ [][NextDict]_vars

(***************************************************************************)
(* Helpers of the properties.                                              *)
(***************************************************************************)
Range(s) == {s[i] : i \in 1..Len(s)}

StrictlyAscending(s) == \A i, j \in 1..Len(s) : i < j => s[i] < s[j]

\* The doc ids of a posting list, in list order.
DocIds(pl) == [i \in 1..Len(pl) |-> pl[i].doc_id]

\* The doc ids of the term's posting list; none when the term has no list.
PostingDocIds(ix, term) == IF term \in DOMAIN ix.postings THEN DocIds(ix.postings[term]) ELSE <<>>

\* The doc ids that have a posting in the posting list of every term.
MatchSet(ix, terms) ==
    {d \in UNION {Range(PostingDocIds(ix, t)) : t \in Range(terms)} :
        \A i \in 1..Len(terms) : d \in Range(PostingDocIds(ix, terms[i]))}

\* The texts of the Term tokens of a document, in scan order.
TermTexts(d) ==
    LET toks == SelectSeq(tokenize(d.body), LAMBDA t : t.kind = "Term")
    IN  [i \in 1..Len(toks) |-> toks[i].text]

\* How many Term tokens of the document are the term.
Occurrences(d, term) == Cardinality({i \in 1..Len(TermTexts(d)) : TermTexts(d)[i] = term})

\* The terms added to the dictionary by the writes so far.
AddedTerms == UNION {Range(TermTexts(written[i])) : i \in 1..Len(written)}

\* The written documents that hold the term.
DocsWith(term) == {i \in 1..Len(written) : Occurrences(written[i], term) > 0}

RECURSIVE mt_collect(_, _, _)
\* The matches of an iterator consumed to exhaustion, after those of acc.
mt_collect(ix, it, acc) ==
    LET r == mt_next(ix, it)
    IN  IF r.out.some THEN mt_collect(ix, r.it, Append(acc, r.out.val)) ELSE acc

IsMultiTerm == pc = "built" /\ ret.op = "multi_term"

\* A query term with no posting list in the index.
HasAbsentTerm(ix, terms) == \E i \in 1..Len(terms) : terms[i] \notin DOMAIN ix.postings

(***************************************************************************)
(* C1. The multi-term intersection iterator, consumed to exhaustion,       *)
(* yields exactly the doc ids that have a posting in the posting list of   *)
(* every query term, in strictly ascending order: what it has emitted so   *)
(* far is ascending and inside that set, and once it is exhausted it is    *)
(* the whole set.                                                          *)
(***************************************************************************)
C1_IntersectionExact ==
    IsMultiTerm =>
        /\ StrictlyAscending(ret.val)
        /\ Range(ret.val) \subseteq MatchSet(index.val, ret.terms)
        /\ ret.done => Range(ret.val) = MatchSet(index.val, ret.terms)

\* Two different terms, exhausted, with the matches 1 and 2 and doc 0 skipped.
C1_Witness ==
    /\ IsMultiTerm
    /\ ret.done
    /\ ret.terms = <<"a", "bc">>
    /\ ret.val = <<1, 2>>

(***************************************************************************)
(* C2. In a built index every posting list has strictly ascending doc_id,  *)
(* whatever the order in which write iterated its per-document term map.   *)
(***************************************************************************)
C2_PostingsAscending ==
    pc = "built" =>
        \A term \in DOMAIN index.val.postings : StrictlyAscending(DocIds(index.val.postings[term]))

\* Three documents holding both terms: each write had two orders to choose from.
C2_Witness ==
    /\ pc = "built"
    /\ \A term \in {"a", "bc"} :
          /\ term \in DOMAIN index.val.postings
          /\ DocIds(index.val.postings[term]) = <<0, 1, 2>>

C4_DictBijection ==
    pc = "writing" =>
        /\ DOMAIN term_dict.term2idx = AddedTerms
        /\ DOMAIN term_dict.idx2term = 0..(term_dict.len - 1)
        /\ \A id \in 0..(term_dict.len - 1) :
              /\ TermDict_term(term_dict, id).some
              /\ TermDict_index(term_dict, TermDict_term(term_dict, id).val) = Some(id)
        /\ \A t \in AddedTerms :
              /\ TermDict_index(term_dict, t).some
              /\ TermDict_term(term_dict, TermDict_index(term_dict, t).val) = Some(t)
        /\ \A t, u \in DOMAIN term_dict.term2idx :
              term_dict.term2idx[t] = term_dict.term2idx[u] => t = u
        /\ \A i, j \in DOMAIN term_dict.idx2term :
              term_dict.idx2term[i] = term_dict.idx2term[j] => i = j

\* Two terms in the dictionary, one of them added again by a later document.
C4_Witness ==
    /\ pc = "writing"
    /\ term_dict.len = 2
    /\ Cardinality(DocsWith("a")) >= 2
    /\ Cardinality(DocsWith("bc")) >= 1

(***************************************************************************)
(* C5. After n writes and build: doc_count = n, stored has exactly the     *)
(* keys 0..n-1, doc(i) is the document of the i-th write, and doc(id) is   *)
(* None for every id >= n.                                                 *)
(***************************************************************************)
C5_StoredDocuments ==
    pc = "built" =>
        LET n == Len(written)
        IN  /\ index.val.doc_count = n
            /\ DOMAIN index.val.stored = 0..(n - 1)
            /\ \A i \in 0..(n - 1) : doc(index.val, i) = Some(written[i + 1])
            /\ \A id \in n..(n + MaxDocs) : doc(index.val, id) = None

\* An index built from at least two writes of different documents.
C5_Witness ==
    /\ pc = "built"
    /\ Len(written) >= 2
    /\ written[1] # written[2]
    /\ index.val.doc_count = Len(written)

(***************************************************************************)
(* C6. A query with a term that has no posting list leaves the iterator    *)
(* exhausted from construction and yields nothing, wherever the term is in *)
(* the query.                                                              *)
(***************************************************************************)
C6_AbsentTermExhausts ==
    (IsMultiTerm /\ HasAbsentTerm(index.val, ret.terms)) =>
        /\ ~mt.val.candidate.some
        /\ ret.val = <<>>

\* The absent term is the second of the query, the first has postings, and a
\* match has been asked for.
C6_Witness ==
    /\ IsMultiTerm
    /\ Len(ret.terms) = 2
    /\ ret.terms[1] \in DOMAIN index.val.postings
    /\ ret.terms[2] \notin DOMAIN index.val.postings
    /\ ret.done

(***************************************************************************)
(* C7. search_term of a term with no posting list returns the empty        *)
(* sequence and search_main of it returns no document; nothing panics, and *)
(* every doc id search_term returns is the id of a stored document.        *)
(***************************************************************************)
C7_UnknownTermAndUnwrap ==
    /\ pc # "panicked"
    /\ (pc = "built" /\ ret.op = "search_term") =>
          /\ ret.term \notin DOMAIN index.val.postings => ret.val = <<>>
          /\ \A i \in 1..Len(ret.val) : doc(index.val, ret.val[i]).some
    /\ (pc = "built" /\ ret.op = "search_main") =>
          /\ ret.val.some
          /\ ret.term \notin DOMAIN index.val.postings => ret.val.val = <<>>
          /\ Len(ret.val.val) = Len(PostingDocIds(index.val, ret.term))

\* search_main of a term with no posting list, over an index whose other term
\* has postings, has returned no document.
C7_Witness ==
    /\ pc = "built"
    /\ ret.op = "search_main"
    /\ ret.term \notin DOMAIN index.val.postings
    /\ DOMAIN index.val.postings # {}
    /\ ret.val = Some(<<>>)

(***************************************************************************)
(* C8. The intersection over the query [t, t] yields the same sequence as  *)
(* the one over [t]: the doc ids of t's posting list, in ascending order.  *)
(***************************************************************************)
C8_RepeatedTerm ==
    (IsMultiTerm /\ ret.done /\ Len(ret.terms) = 2 /\ ret.terms[1] = ret.terms[2]) =>
        /\ ret.val = mt_collect(index.val, mt_new(index.val, <<ret.terms[1]>>, 1), <<>>)
        /\ ret.val = PostingDocIds(index.val, ret.terms[1])
        /\ StrictlyAscending(ret.val)

\* The repeated term has three postings and all three ids were yielded.
C8_Witness ==
    /\ IsMultiTerm
    /\ ret.done
    /\ ret.terms = <<"a", "a">>
    /\ ret.val = <<0, 1, 2>>

(***************************************************************************)
(* C9. idf(term) is never negative, is 0 when the term has a posting for   *)
(* every document, and is log2(doc_count / (matching_doc_count + 1))       *)
(* floored at 0, with matching_doc_count = 0 for an unknown term (log2 to  *)
(* the model's precision of 1/8, rounded down).                            *)
(***************************************************************************)
C9_Idf ==
    (pc = "built" /\ ret.op = "idf") =>
        LET n == Len(written)
            q == Cardinality(DocsWith(ret.term)) + 1
            v == ret.val
        IN  /\ v.den > 0
            /\ v.num >= 0
            /\ q = n + 1 => v.num = 0
            /\ n < q => v.num = 0
            /\ n >= q =>
                  \E k \in 0..20 :
                      /\ v.num * 8 = k * v.den
                      /\ 2 ^ k <= (n ^ 8) \div (q ^ 8)
                      /\ ~(2 ^ (k + 1) <= (n ^ 8) \div (q ^ 8))

\* idf of a term held by every one of at least two documents.
C9_Witness ==
    /\ pc = "built"
    /\ ret.op = "idf"
    /\ Len(written) >= 2
    /\ Cardinality(DocsWith(ret.term)) = Len(written)
    /\ ret.val.num = 0

(***************************************************************************)
(* C10. tf(doc_id, term) is the number of Term tokens of the document that *)
(* are the term divided by the number of its Term tokens, and 0 when the   *)
(* document is unknown or does not hold the term; term_count is the sum of *)
(* the per-term counts.                                                    *)
(***************************************************************************)
C10_Tf ==
    /\ (pc = "built" /\ ret.op = "tf") =>
          LET known == ret.doc_id < Len(written)
              total == IF known THEN Len(TermTexts(written[ret.doc_id + 1])) ELSE 0
              occ   == IF known THEN Occurrences(written[ret.doc_id + 1], ret.term) ELSE 0
          IN  /\ ret.val.den > 0
              /\ occ = 0 => ret.val.num = 0
              /\ occ > 0 => ret.val.num * total = occ * ret.val.den
    /\ pc = "built" =>
          \A id \in DOMAIN index.val.term_freq :
              LET tfq == index.val.term_freq[id]
              IN  /\ tfq.term_count = Len(TermTexts(written[id + 1]))
                  /\ \A t \in DOMAIN tfq.terms : tfq.terms[t] = Occurrences(written[id + 1], t)
                  /\ \A t \in Range(TermTexts(written[id + 1])) : t \in DOMAIN tfq.terms

\* tf of a term that is one of the two terms of the document: 1/2.
C10_Witness ==
    /\ pc = "built"
    /\ ret.op = "tf"
    /\ ret.val.num > 0
    /\ ret.val.num * 2 = ret.val.den

(***************************************************************************)
(* C11. search_term is deterministic: its result is the one of the         *)
(* reference run, which writes the same documents and iterates every       *)
(* per-document term map in ascending key order, whatever orders the run   *)
(* itself took; so any two runs over the same documents and term agree.    *)
(***************************************************************************)
\* The order of the reference run over the keys S.
AscendingOrder(S) == CHOOSE o \in Orders(S) : \A i, j \in 1..Len(o) : i < j => o[i] < o[j]

RECURSIVE ReferenceWriter(_, _)
\* The writer after the documents ds are written in the reference order.
ReferenceWriter(w, ds) ==
    IF ds = <<>> THEN w
    ELSE LET r   == write_tokens(w.term_dict, EmptyMap, tokenize(Head(ds).body))
             ord == AscendingOrder(DOMAIN r.data)
         IN  ReferenceWriter(
                 [seq            |-> w.seq + 1,
                  term_dict      |-> r.dict,
                  term_positions |-> w.term_positions \o
                                     [i \in 1..Len(ord) |-> <<w.seq, ord[i], r.data[ord[i]]>>],
                  stored         |-> Append(w.stored, <<w.seq, Head(ds)>>)],
                 Tail(ds))

\* The index the reference run builds from the documents ds.
ReferenceIndex(ds) ==
    LET w == ReferenceWriter([seq |-> 0, term_dict |-> TermDict_new,
                              term_positions |-> <<>>, stored |-> <<>>], ds)
    IN  build(w.seq, w.term_dict, w.term_positions, w.stored).val

C11_SearchTermDeterministic ==
    (pc = "built" /\ ret.op = "search_term") =>
        ret.val = search_term(ReferenceIndex(written), ret.term)

\* A ranking decided by the scores (idf is positive, the tf differ) over an
\* index with a document of two terms, whose write had two orders to take.
C11_Witness ==
    /\ pc = "built"
    /\ ret.op = "search_term"
    /\ Len(ret.val) = 2
    /\ idf(index.val, ret.term).num > 0
    /\ f32_lt(tf(index.val, ret.val[1], ret.term), tf(index.val, ret.val[2], ret.term))
    /\ \E id \in DOMAIN index.val.term_freq : Cardinality(DOMAIN index.val.term_freq[id].terms) = 2

(***************************************************************************)
(* C12. add_term of a term already in the dictionary returns the id it was *)
(* first given and leaves len and both mappings unchanged; of a new term   *)
(* it returns the length before the call, adds the term under that id to   *)
(* both mappings and increases len by one.  So the ids handed out are      *)
(* 0, 1, 2, ... in order of first sight.                                   *)
(***************************************************************************)
RECURSIVE FirstSight(_)
\* The distinct terms of a call history, in order of first occurrence.
FirstSight(log) ==
    IF log = <<>> THEN <<>>
    ELSE LET before == FirstSight(SubSeq(log, 1, Len(log) - 1))
         IN  IF log[Len(log)] \in Range(before) THEN before ELSE Append(before, log[Len(log)])

\* What one add_term call may do to the dictionary and return.
C12_Step ==
    ret'.op = "add_term" =>
        IF ret'.term \in DOMAIN term_dict.term2idx
        THEN /\ ret'.val = term_dict.term2idx[ret'.term]
             /\ term_dict' = term_dict
        ELSE /\ ret'.val = term_dict.len
             /\ term_dict'.len = term_dict.len + 1
             /\ term_dict'.term2idx = MapPut(term_dict.term2idx, ret'.term, term_dict.len)
             /\ term_dict'.idx2term = MapPut(term_dict.idx2term, term_dict.len, ret'.term)

\* The ids are the ranks in order of first sight.
C12_Ids ==
    ret.op = "add_term" =>
        LET fs == FirstSight(ret.log)
        IN  /\ term_dict.len = Len(fs)
            /\ \A i \in 1..Len(fs) : TermDict_index(term_dict, fs[i]) = Some(i - 1)
            /\ \E i \in 1..Len(fs) : fs[i] = ret.term /\ ret.val = i - 1

C12_AddTermFrame == [][C12_Step]_vars /\ []C12_Ids

\* The last of four calls repeats the first term after two other terms.
C12_Witness ==
    /\ ret.op = "add_term"
    /\ Len(ret.log) = 4
    /\ ret.log[4] = ret.log[1]
    /\ term_dict.len = 3
    /\ ret.val = 0

(***************************************************************************)
(* C13. The posting of a term for a document lists exactly the word        *)
(* positions of the Term tokens equal to the term, strictly ascending;     *)
(* a punctuation mark has no posting and takes one position.  The words    *)
(* (maximal runs of characters that are neither whitespace nor             *)
(* punctuation) and the punctuation marks of the body, counted from 0 in   *)
(* text order, give the positions: the postings of the document are the    *)
(* positions of its words.                                                 *)
(***************************************************************************)
RECURSIVE Lexemes(_, _, _)
\* The words and punctuation marks of the characters rest, in text order,
\* after those of acc; word is the run of word characters being read.
Lexemes(acc, word, rest) ==
    LET flushed == IF word = "" THEN acc ELSE Append(acc, [kind |-> "Term", text |-> word])
    IN  IF rest = <<>> THEN flushed
        ELSE IF is_whitespace(Head(rest)) THEN Lexemes(flushed, "", Tail(rest))
        ELSE IF is_ascii_punctuation(Head(rest))
        THEN Lexemes(Append(flushed, [kind |-> "Punct", text |-> Head(rest)]), "", Tail(rest))
        ELSE Lexemes(acc, word \o Head(rest), Tail(rest))

\* The ascending sequence of the numbers of a finite set.
RECURSIVE Ascending(_)
Ascending(S) ==
    IF S = {} THEN <<>>
    ELSE LET m == CHOOSE x \in S : \A y \in S : x <= y IN <<m>> \o Ascending(S \ {m})

\* The positions (from 0) at which the word is among the lexemes lx.
WordPositions(lx, word) == {k - 1 : k \in {i \in 1..Len(lx) : lx[i].kind = "Term" /\ lx[i].text = word}}

C13_PostingPositions ==
    pc = "built" =>
        \A id \in 0..(Len(written) - 1) :
            LET lx    == Lexemes(<<>>, "", written[id + 1].body)
                words == {lx[i].text : i \in {k \in 1..Len(lx) : lx[k].kind = "Term"}}
            IN  /\ \A term \in DOMAIN index.val.postings :
                      \A i \in 1..Len(index.val.postings[term]) :
                          LET p == index.val.postings[term][i]
                          IN  p.doc_id = id =>
                                  /\ StrictlyAscending(p.positions)
                                  /\ p.positions = Ascending(WordPositions(lx, term))
                /\ \A word \in words :
                      /\ word \in DOMAIN index.val.postings
                      /\ id \in Range(DocIds(index.val.postings[word]))

(***************************************************************************)
(* C14. Every request for the next match terminates, with a match or with  *)
(* exhaustion.  Each round of the leapfrog loop strictly advances a cursor *)
(* or strictly increases the candidate, exhaustion counting as the         *)
(* candidate having passed every document id; no cursor and no candidate   *)
(* ever decreases; every cursor stays within its posting list or one past  *)
(* its end; an exhausted iterator stays exhausted and emits nothing.       *)
(***************************************************************************)
\* The candidate a comes strictly before the candidate b; the exhausted
\* candidate comes after every document id.
CandidateLt(a, b) == a.some /\ (~b.some \/ a.val < b.val)

\* A round of the leapfrog loop over the iterator of a request in progress.
C14_Round ==
    (pc = "next" /\ mt.some /\ mt'.some) =>
        LET it == mt.val
            nx == mt'.val
        IN  /\ nx.terms = it.terms
            /\ Len(nx.cursors) = Len(it.cursors)
            /\ \A i \in 1..Len(it.cursors) : nx.cursors[i] >= it.cursors[i]
            /\ ~CandidateLt(nx.candidate, it.candidate)
            /\ it.candidate.some =>
                  \/ \E i \in 1..Len(it.cursors) : nx.cursors[i] > it.cursors[i]
                  \/ CandidateLt(it.candidate, nx.candidate)
            /\ ~it.candidate.some =>
                  /\ nx = it
                  /\ pc' = "built"
                  /\ ret'.val = ret.val
                  /\ ret'.done

\* Every cursor is within its posting list or one past its end.
C14_CursorsBounded ==
    (pc \in {"built", "next"} /\ mt.some) =>
        \A i \in 1..Len(mt.val.cursors) :
            /\ mt.val.cursors[i] >= 1
            /\ mt.val.cursors[i] <= Len(index.val.postings[mt.val.terms[i]]) + 1

C14_NextTerminates ==
    /\ [][C14_Round]_vars
    /\ []C14_CursorsBounded
    /\ (pc = "next") ~> (pc = "built")

\* A request in progress that has leapfrogged: a cursor has advanced, the
\* candidate has moved off the first document, nothing is emitted yet.
C14_Witness ==
    /\ pc = "next"
    /\ mt.some
    /\ mt.val.candidate.some
    /\ mt.val.candidate.val > 0
    /\ \E i \in 1..Len(mt.val.cursors) : mt.val.cursors[i] > 1
    /\ ret.val = <<>>

(***************************************************************************)
(* C15. For every pair of DocAndScore values a and b, with the impls of    *)
(* lib.rs and with those of doc.rs: partial_cmp(a, b) is Some(cmp(a, b)),  *)
(* cmp(a, a) is Equal, cmp(b, a) is the reverse of cmp(a, b), the value    *)
(* with the higher score compares Less, and with equal scores the value    *)
(* with the lower doc_id compares Less.                                    *)
(***************************************************************************)
C15_DocAndScoreOrdering ==
    ret.op \in {"cmp", "doc_rs_cmp"} =>
        /\ ret.partial = Some(ret.val)
        /\ ret.a = ret.b => ret.val = "Equal"
        /\ ret.rev = reverse(ret.val)
        /\ f32_lt(ret.b.score, ret.a.score) => ret.val = "Less"
        /\ (ret.a.score = ret.b.score /\ ret.a.doc_id < ret.b.doc_id) => ret.val = "Less"

(***************************************************************************)
(* C16. Every Term token of the whitespace tokenizer (tokenize of lib.rs,  *)
(* whitespace_tokenize of token.rs) has a non-empty text, and the empty    *)
(* string is never a key of the postings of a built index.                 *)
(***************************************************************************)
C16_TermTokensNonEmpty ==
    /\ ret.op \in {"tokenize", "whitespace_tokenize"} =>
          \A i \in 1..Len(ret.val) :
              ret.val[i].kind = "Term" => (ret.val[i].text # "" /\ ret.val[i].length > 0)
    /\ pc = "built" => "" \notin DOMAIN index.val.postings
====
